---- MODULE Spec2Model ----
(***************************************************************************)
(* The PID controller of PIDcontroller/PID_most_compact_implementation:    *)
(* class PID with its constructor and its single operation Update.          *)
(*                                                                         *)
(* Numbers.  The code computes in Python floats.  Gains, errors and         *)
(* timestamps are drawn from small sets of integers (finite reals); Cp, Ci, *)
(* previous_time and previous_error then hold integers, and the quotient    *)
(* de / dt and the returned correction are exact rationals <<n, d>> in      *)
(* lowest terms with d > 0.  Non-finite floats (NaN, infinities) are not    *)
(* in the input sets.                                                       *)
(***************************************************************************)
EXTENDS Integers, Sequences, FiniteSets

\* ---------------------------------------------------------------- bounds
MaxCalls == 3
MaxTime == 4

Times == 0..MaxTime
Origins == {0, 1}
Errors == {-1, 0, 2}
GainTriples == {<<1, 0, 0>>, <<0, 1, 0>>, <<0, 0, 1>>, <<2, 3, 5>>}

\* ------------------------------------------------------------- rationals
Abs(x) == IF x < 0 THEN -x ELSE x

RECURSIVE Gcd(_, _)
Gcd(a, b) == IF b = 0 THEN a ELSE Gcd(b, a % b)

\* n / d in lowest terms, d # 0
Rat(n, d) ==
    LET g == Gcd(Abs(n), Abs(d))
        s == IF d < 0 THEN -1 ELSE 1
    IN  <<(s * n) \div g, (s * d) \div g>>

FromInt(x) == <<x, 1>>
Zero == <<0, 1>>
RAdd(p, q) == Rat(p[1] * q[2] + q[1] * p[2], p[2] * q[2])
RMul(p, q) == Rat(p[1] * q[1], p[2] * q[2])

VARIABLES
    self,     \* the PID instance: Kp, Ki, Kd, Cp, Ci, Cd, previous_time, previous_error
    args,     \* the constructor's arguments (origin_time after the time.time() default)
    calls,    \* the Update calls made so far, each with the instance as it was before
    ret,      \* the value the last Update call returned
    raised    \* TRUE iff the last Update call raised (ZeroDivisionError)

vars == <<self, args, calls, ret, raised>>

\* ------------------------------------------------------------ PID.__init__
PID_init_originZero(Kp, Ki, Kd, origin_time) ==
    [Kp |-> Kp, Ki |-> Ki, Kd |-> Kd,
     Cp |-> 0, Ci |-> 0, Cd |-> Zero,
     previous_time |-> 0, previous_error |-> 0]

PID_init_gainsSwapped(Kp, Ki, Kd, origin_time) ==
    [Kp |-> Kp, Ki |-> Kd, Kd |-> Ki,
     Cp |-> 0, Ci |-> 0, Cd |-> Zero,
     previous_time |-> origin_time, previous_error |-> 0]

PID_init(Kp, Ki, Kd, origin_time) ==
    [Kp |-> Kp, Ki |-> Ki, Kd |-> Kd,
     Cp |-> 0, Ci |-> 0, Cd |-> Zero,
     previous_time |-> origin_time, previous_error |-> 0]

\* -------------------------------------------------------------- PID.Update
\* the guard `if dt <= 0.0`
Rejects_strict(dt) == dt < 0
Rejects_never(dt) == FALSE
Rejects(dt) == dt <= 0

\* self.Ci += error * dt
Integrate_reset(Ci, error, dt) == error * dt
Integrate_noDt(Ci, error, dt) == Ci + error
Integrate(Ci, error, dt) == Ci + error * dt

\* the returned expression Kp*Cp + Ki*Ci + Kd*Cd
Correction_noD(s) ==
    RAdd(FromInt(s.Kp * s.Cp), FromInt(s.Ki * s.Ci))
Correction(s) ==
    RAdd(RAdd(FromInt(s.Kp * s.Cp), FromInt(s.Ki * s.Ci)),
         RMul(FromInt(s.Kd), s.Cd))

\* The statements after the guard.  Cp and Ci are assigned before the
\* division de / dt, which raises ZeroDivisionError when dt = 0.
Apply_gainTypo(s, error, current_time, dt) ==
    LET de == error - s.previous_error
        s1 == [s EXCEPT !.Kp = error, !.Ci = Integrate(s.Ci, error, dt)]
    IN  IF dt = 0
        THEN [self |-> s1, ret |-> Zero, raised |-> TRUE]
        ELSE LET s2 == [s1 EXCEPT !.Cd = Rat(de, dt),
                                  !.previous_time = current_time,
                                  !.previous_error = error]
             IN  [self |-> s2, ret |-> Correction(s2), raised |-> FALSE]

Apply_errorNotStored(s, error, current_time, dt) ==
    LET de == error - s.previous_error
        s1 == [s EXCEPT !.Cp = error, !.Ci = Integrate(s.Ci, error, dt)]
    IN  IF dt = 0
        THEN [self |-> s1, ret |-> Zero, raised |-> TRUE]
        ELSE LET s2 == [s1 EXCEPT !.Cd = Rat(de, dt),
                                  !.previous_time = current_time]
             IN  [self |-> s2, ret |-> Correction(s2), raised |-> FALSE]

Apply_cpIsDe(s, error, current_time, dt) ==
    LET de == error - s.previous_error
        s1 == [s EXCEPT !.Cp = de, !.Ci = Integrate(s.Ci, error, dt)]
    IN  IF dt = 0
        THEN [self |-> s1, ret |-> Zero, raised |-> TRUE]
        ELSE LET s2 == [s1 EXCEPT !.Cd = Rat(de, dt),
                                  !.previous_time = current_time,
                                  !.previous_error = error]
             IN  [self |-> s2, ret |-> Correction(s2), raised |-> FALSE]

Apply(s, error, current_time, dt) ==
    LET de == error - s.previous_error
        s1 == [s EXCEPT !.Cp = error, !.Ci = Integrate(s.Ci, error, dt)]
    IN  IF dt = 0
        THEN [self |-> s1, ret |-> Zero, raised |-> TRUE]
        ELSE LET s2 == [s1 EXCEPT !.Cd = Rat(de, dt),
                                  !.previous_time = current_time,
                                  !.previous_error = error]
             IN  [self |-> s2, ret |-> Correction(s2), raised |-> FALSE]

\* Update(self, error, current_time): the new instance, the returned value,
\* and whether the call raised.
Update_stampOnReject(s, error, current_time) ==
    LET dt == current_time - s.previous_time
    IN  IF Rejects(dt)
        THEN [self |-> [s EXCEPT !.previous_time = current_time,
                                 !.previous_error = error],
              ret |-> Zero, raised |-> FALSE]
        ELSE Apply(s, error, current_time, dt)

Update_errorOnReject(s, error, current_time) ==
    LET dt == current_time - s.previous_time
    IN  IF Rejects(dt)
        THEN [self |-> [s EXCEPT !.previous_error = error],
              ret |-> Zero, raised |-> FALSE]
        ELSE Apply(s, error, current_time, dt)

Update(s, error, current_time) ==
    LET dt == current_time - s.previous_time
    IN  IF Rejects(dt)
        THEN [self |-> s, ret |-> Zero, raised |-> FALSE]
        ELSE Apply(s, error, current_time, dt)

\* ------------------------------------------------------------ the machine
Init ==
    \E g \in GainTriples, origin_time \in Origins :
        /\ args = [Kp |-> g[1], Ki |-> g[2], Kd |-> g[3], origin_time |-> origin_time]
        /\ self = PID_init(g[1], g[2], g[3], origin_time)
        /\ calls = <<>>
        /\ ret = Zero
        /\ raised = FALSE

\* Update(error, current_time) with an explicit timestamp
UpdateAt ==
    \E error \in Errors, current_time \in Times :
        LET r == Update(self, error, current_time)
        IN  /\ Len(calls) < MaxCalls
            /\ self' = r.self
            /\ ret' = r.ret
            /\ raised' = r.raised
            /\ calls' = Append(calls, [error |-> error, current_time |-> current_time,
                                       pre |-> self])
            /\ UNCHANGED args

\* Update(error): current_time is None and is read from time.time()
UpdateNow ==
    \E error \in Errors, now \in Times :
        LET r == Update(self, error, now)
        IN  /\ Len(calls) < MaxCalls
            /\ self' = r.self
            /\ ret' = r.ret
            /\ raised' = r.raised
            /\ calls' = Append(calls, [error |-> error, current_time |-> now,
                                       pre |-> self])
            /\ UNCHANGED args

Next == UpdateAt \/ UpdateNow

Spec == Init /\ [][Next]_vars

\* ------------------------------------------------- reading the call log
NCalls == Len(calls)
Last == calls[NCalls]
\* dt of a logged call, measured from the previous_time in force when it was made
DtOf(c) == c.current_time - c.pre.previous_time
Accepted(c) == DtOf(c) > 0
AcceptedIdx == {i \in 1..NCalls : Accepted(calls[i])}

\* ------------------------------------------------------------------- C1
\* C1: an Update call with current_time <= previous_time (dt <= 0) returns
\* exactly 0 and leaves previous_time, previous_error and Ci as they were.
C1_RejectedIsNoOp ==
    (NCalls > 0 /\ Last.current_time <= Last.pre.previous_time) =>
        /\ ~raised
        /\ ret = Zero
        /\ self.previous_time = Last.pre.previous_time
        /\ self.previous_error = Last.pre.previous_error
        /\ self.Ci = Last.pre.Ci

\* an accepted call, then the same stale timestamp twice, with another error
C1_Witness ==
    /\ NCalls = 3
    /\ Accepted(calls[1])
    /\ calls[2].current_time = calls[3].current_time
    /\ calls[3].current_time <= calls[3].pre.previous_time
    /\ calls[3].error # self.previous_error
    /\ self.Ci # 0

\* ------------------------------------------------------------------- C2
\* C2: a call with dt > 0 returns
\* Kp*error + Ki*(Ci_before + error*dt) + Kd*((error - previous_error_before)/dt),
\* unclamped.  Stated multiplied through by dt, on the returned fraction n/d.
C2_AcceptedReturn ==
    (NCalls > 0 /\ Accepted(Last)) =>
        LET e  == Last.error
            dt == DtOf(Last)
            p  == Last.pre
        IN  /\ ~raised
            /\ ret[2] > 0
            /\ ret[1] * dt =
                 ret[2] * (p.Kp * e * dt + p.Ki * (p.Ci + e * dt) * dt
                           + p.Kd * (e - p.previous_error))

\* all three terms contribute, the quotient is not an integer
C2_Witness ==
    /\ NCalls > 1
    /\ Accepted(Last)
    /\ Last.pre.Kp # 0 /\ Last.pre.Ki # 0 /\ Last.pre.Kd # 0
    /\ Last.pre.Ci # 0
    /\ Last.pre.previous_error # 0
    /\ Last.error # 0
    /\ ret[2] # 1

\* ------------------------------------------------------------------- C3
RECURSIVE SumErrorDt(_)
\* sum of error*dt over the accepted calls among the first n
SumErrorDt(n) ==
    IF n = 0 THEN 0
    ELSE SumErrorDt(n - 1)
         + (IF Accepted(calls[n]) THEN calls[n].error * DtOf(calls[n]) ELSE 0)

RECURSIVE SumErrors(_)
SumErrors(n) == IF n = 0 THEN 0 ELSE SumErrors(n - 1) + calls[n].error

UnitSteps == \A i \in 1..NCalls : calls[i].current_time = args.origin_time + i

\* C3: Ci is the sum of error*dt over exactly the calls that had dt > 0; with
\* Kp=0, Ki=1, Kd=0 and unit time steps the n-th call returns the sum of the
\* first n errors.
C3_RunningSum ==
    /\ self.Ci = SumErrorDt(NCalls)
    /\ (NCalls > 0 /\ UnitSteps /\ args.Kp = 0 /\ args.Ki = 1 /\ args.Kd = 0) =>
           ret = FromInt(SumErrors(NCalls))

\* accepted, rejected, accepted: the sum skips the middle call
C3_Witness ==
    /\ NCalls = 3
    /\ Accepted(calls[1]) /\ ~Accepted(calls[2]) /\ Accepted(calls[3])
    /\ calls[1].error # 0 /\ calls[2].error # 0 /\ calls[3].error # 0
    /\ self.Ci # calls[3].error * DtOf(calls[3])

\* ------------------------------------------------------------------- C4
\* C4: previous_time never decreases across an Update call and is never
\* below the origin timestamp.
C4_PreviousTimeMonotone ==
    [][/\ self'.previous_time >= self.previous_time
       /\ self'.previous_time >= args.origin_time]_vars

\* an out-of-order timestamp arrived after an accepted call
C4_Witness ==
    /\ NCalls > 1
    /\ Last.current_time < Last.pre.previous_time
    /\ Last.pre.previous_time > args.origin_time

\* ------------------------------------------------------------------- C5
\* the last two calls, both accepted, with different dt
TwoAccepted ==
    /\ NCalls >= 2
    /\ Accepted(calls[NCalls - 1])
    /\ Accepted(Last)
    /\ DtOf(calls[NCalls - 1]) # DtOf(Last)

\* Ci after two updates (ea, dta), (eb, dtb) applied to the state s0
CiAfterTwo(s0, ea, dta, eb, dtb) ==
    LET sa == Update(s0, ea, s0.previous_time + dta).self
    IN  Update(sa, eb, sa.previous_time + dtb).self.Ci

\* the pairs (e1, dt1), (e2, dt2) applied as (e2, dt2), (e1, dt1)
SwappedCi ==
    LET c1 == calls[NCalls - 1]
        c2 == Last
    IN  CiAfterTwo(c1.pre, c2.error, DtOf(c2), c1.error, DtOf(c1))

\* the errors exchanged between the two intervals: (e2, dt1), (e1, dt2)
ExchangedCi ==
    LET c1 == calls[NCalls - 1]
        c2 == Last
    IN  CiAfterTwo(c1.pre, c2.error, DtOf(c1), c1.error, DtOf(c2))

\* C5 as stated: two accepted updates with dt1 # dt2 applied in swapped
\* order produce a different accumulator value.
C5_Original == TwoAccepted => SwappedCi # self.Ci

\* C5 amended: the two pairs applied in swapped order produce the same
\* accumulator value; exchanging the errors between the two intervals
\* (e1 # e2, dt1 # dt2) produces a different one.
C5_PairingSensitive ==
    TwoAccepted =>
        /\ SwappedCi = self.Ci
        /\ (calls[NCalls - 1].error # Last.error) => ExchangedCi # self.Ci

C5_Witness ==
    /\ TwoAccepted
    /\ calls[NCalls - 1].error # Last.error
    /\ calls[NCalls - 1].error # 0
    /\ Last.error # 0
    /\ calls[NCalls - 1].pre.Ci # 0

\* ------------------------------------------------------------------- C6
\* C6: no Update call raises; a call with dt <= 0 returns 0, so the division
\* de / dt is never evaluated with dt = 0.
C6_NeverRaises ==
    NCalls > 0 =>
        /\ ~raised
        /\ (DtOf(Last) <= 0 => ret = Zero)

\* a call whose timestamp equals previous_time (dt = 0), after a call that divided
C6_Witness ==
    /\ NCalls > 1
    /\ DtOf(Last) = 0
    /\ Accepted(calls[NCalls - 1])
    /\ Last.error # Last.pre.previous_error

\* ------------------------------------------------------------------- C7
\* C7: right after construction previous_time = t0, previous_error = 0,
\* Cp = Ci = Cd = 0 and the gains are those supplied; the first accepted
\* Update(error, t0+dt) returns Kp*error + Ki*error*dt + Kd*error/dt.
C7_Construction ==
    /\ NCalls = 0 =>
        /\ self.previous_time = args.origin_time
        /\ self.previous_error = 0
        /\ self.Cp = 0 /\ self.Ci = 0 /\ self.Cd = Zero
        /\ self.Kp = args.Kp /\ self.Ki = args.Ki /\ self.Kd = args.Kd
    /\ (NCalls > 0 /\ AcceptedIdx = {NCalls}) =>
        LET e  == Last.error
            dt == Last.current_time - args.origin_time
        IN  /\ ret[2] > 0
            /\ ret[1] * dt =
                 ret[2] * (args.Kp * e * dt + args.Ki * e * dt * dt + args.Kd * e)

\* the first accepted call comes after a rejected one, all gains in play
C7_Witness ==
    /\ NCalls = 2
    /\ AcceptedIdx = {2}
    /\ args.origin_time = 1
    /\ args.Kp # 0 /\ args.Ki # 0 /\ args.Kd # 0
    /\ Last.error # 0
    /\ calls[1].error # 0
    /\ ret[2] # 1

\* ------------------------------------------------------------------- C8
\* C8: after any sequence of Update calls the gains equal the constructor's
\* arguments.
C8_GainsImmutable ==
    /\ self.Kp = args.Kp
    /\ self.Ki = args.Ki
    /\ self.Kd = args.Kd

C8_Witness ==
    /\ NCalls = MaxCalls
    /\ AcceptedIdx # {}
    /\ AcceptedIdx # 1..NCalls
    /\ args.Kp # args.Ki /\ args.Ki # args.Kd /\ args.Kp # args.Kd

\* ------------------------------------------------------------------- C9
\* C9 as stated: every field other than previous_time, previous_error and
\* Ci (the gains, Cp and Cd) has the same value after a call as before it.
C9_Original ==
    NCalls > 0 =>
        /\ self.Kp = Last.pre.Kp /\ self.Ki = Last.pre.Ki /\ self.Kd = Last.pre.Kd
        /\ self.Cp = Last.pre.Cp
        /\ self.Cd = Last.pre.Cd

\* C9 amended: a call changes no gain; an accepted call also sets the
\* retained terms, Cp to the call's error and Cd to de/dt; a rejected call
\* leaves Cp and Cd as they were.
C9_FrameWithTerms ==
    NCalls > 0 =>
        /\ self.Kp = Last.pre.Kp /\ self.Ki = Last.pre.Ki /\ self.Kd = Last.pre.Kd
        /\ Accepted(Last) =>
             /\ self.Cp = Last.error
             /\ self.Cd[2] > 0
             /\ self.Cd[1] * DtOf(Last) =
                  self.Cd[2] * (Last.error - Last.pre.previous_error)
        /\ ~Accepted(Last) =>
             /\ self.Cp = Last.pre.Cp
             /\ self.Cd = Last.pre.Cd

\* an accepted call that changed both retained terms
C9_Witness ==
    /\ NCalls > 1
    /\ Accepted(Last)
    /\ self.Cp # Last.pre.Cp
    /\ self.Cd # Last.pre.Cd
    /\ self.Kp # 0

\* ------------------------------------------------------------------ C10
\* C10: previous_time and previous_error are the timestamp and the error of
\* the last call that had dt > 0, or the origin timestamp and 0 if there is
\* none.
C10_LastApplied ==
    IF AcceptedIdx = {}
    THEN /\ self.previous_time = args.origin_time
         /\ self.previous_error = 0
    ELSE LET i == CHOOSE k \in AcceptedIdx : \A j \in AcceptedIdx : j <= k
         IN  /\ self.previous_time = calls[i].current_time
             /\ self.previous_error = calls[i].error

\* the last applied call is followed by a rejected call with another error
C10_Witness ==
    /\ NCalls = 3
    /\ AcceptedIdx = {1, 2}
    /\ calls[2].error # 0
    /\ calls[1].error # calls[2].error
    /\ calls[3].error # calls[2].error
    /\ calls[3].current_time # calls[2].current_time

\* ------------------------------------------------------------------ C11
\* the logged calls that had dt > 0, in order
RECURSIVE AcceptedCalls(_)
AcceptedCalls(n) ==
    IF n = 0 THEN <<>>
    ELSE IF Accepted(calls[n])
         THEN Append(AcceptedCalls(n - 1), calls[n])
         ELSE AcceptedCalls(n - 1)

\* the outcome of the last of the calls cs[1..n] run on the instance s0
\* (s0 itself, with nothing returned, when n = 0)
RECURSIVE RunCalls(_, _, _)
RunCalls(s0, cs, n) ==
    IF n = 0 THEN [self |-> s0, ret |-> Zero, raised |-> FALSE]
    ELSE Update(RunCalls(s0, cs, n - 1).self, cs[n].error, cs[n].current_time)

\* only the accepted calls, on a controller constructed with the same arguments
AcceptedOnly ==
    LET cs == AcceptedCalls(NCalls)
    IN  RunCalls(PID_init(args.Kp, args.Ki, args.Kd, args.origin_time), cs, Len(cs))

\* C11: the controller state after any sequence of calls, and the value
\* returned by each accepted call, are those of running only the accepted
\* calls in the same order on a controller constructed alike.  (Every
\* accepted call is the last call of the state it leads to.)
C11_RejectedTransparent ==
    /\ self = AcceptedOnly.self
    /\ (NCalls > 0 /\ Accepted(Last)) =>
           /\ ~raised /\ ~AcceptedOnly.raised
           /\ ret = AcceptedOnly.ret

\* a rejected call with another error sits between two accepted calls, and
\* the derivative and integral terms count
C11_Witness ==
    /\ NCalls = 3
    /\ AcceptedIdx = {1, 3}
    /\ calls[2].error # calls[1].error
    /\ calls[3].error # calls[2].error
    /\ calls[3].error # calls[1].error
    /\ args.Ki # 0 /\ args.Kd # 0
    /\ ret # Zero

\* ------------------------------------------------------------------ C12
\* C12: the retained proportional term Cp equals previous_error in every
\* reachable state.
C12_CpIsPreviousError == self.Cp = self.previous_error

\* an accepted call with a non-zero error, then a rejected call with another
C12_Witness ==
    /\ NCalls > 1
    /\ ~Accepted(Last)
    /\ Accepted(calls[NCalls - 1])
    /\ self.Cp # 0
    /\ Last.error # self.Cp

====
